---- MODULE Spec2Model ----
(***************************************************************************)
(* A model of the zero2prod newsletter service: the subscribe handler and  *)
(* its transaction, the confirm handler, the newsletter publish handler,   *)
(* the health check and the email client.                                  *)
(*                                                                         *)
(* Text is modelled as a sequence of lexemes (single characters, or a      *)
(* literal piece of a format string), so that formatting is concatenation  *)
(* and parsing has to find what it looks for.  An optional value is a      *)
(* sequence of length 0 (None) or 1 (Some).                                *)
(***************************************************************************)
EXTENDS Integers, Sequences, FiniteSets, TLC

\* ------------------------------------------------------------------ bounds

\* Number of requests the server handles concurrently.
MaxRequests == 2
\* Number of distinct subscriber ids / subscription tokens the generators draw from.
MaxSubscribers == 2
\* Number of newsletter emails the email server receives before publishers stop sending.
MaxNewsletterMails == 2
\* Length of the names, and of the endings of long names, SubscriberName::parse is applied to.
MaxNameLen == 2

\* -------------------------------------------------------- program constants

\* generate_subscription_token: .take(25)
TokenLen == 25
\* SubscriberName::parse: graphemes(true).count() > 256
MaxNameGraphemes == 256

\* ------------------------------------------------------------- small helpers

None == <<>>
Some(v) == <<v>>
Ok(v) == [ok |-> TRUE, val |-> v]
Err(e) == [ok |-> FALSE, val |-> e]

Range(s) == {s[i] : i \in 1..Len(s)}

\* The index of the first occurrence of lexeme c in s, or 0.
IndexOf(s, c) ==
    IF \E i \in 1..Len(s) : s[i] = c
    THEN CHOOSE i \in 1..Len(s) : s[i] = c /\ \A j \in 1..(i - 1) : s[j] # c
    ELSE 0

\* All orders in which the rows of a set can come back from a query without ORDER BY.
Orders(S) ==
    {q \in [1..Cardinality(S) -> S] : \A i, j \in 1..Cardinality(S) : i # j => q[i] # q[j]}

\* ------------------------------------------------------------ domain types

Whitespace == {" ", "\t", "\n"}
\* A combining mark joins the character before it in one grapheme.
CombiningMarks == {"COMBINING RING ABOVE"}
forbidden_characters == {"/", "(", ")", "\"", "<", ">", "\\", "{", "}"}

\* str::trim: without the leading and the trailing whitespace.
Trim(s) ==
    LET keep == {i \in 1..Len(s) : s[i] \notin Whitespace}
    IN IF keep = {} THEN <<>>
       ELSE LET lo == CHOOSE i \in keep : \A j \in keep : i <= j
                hi == CHOOSE i \in keep : \A j \in keep : j <= i
            IN SubSeq(s, lo, hi)

\* s.graphemes(true).count()
GraphemeCount(s) ==
    Cardinality({i \in 1..Len(s) : i = 1 \/ s[i] \notin CombiningMarks})

\* A mutant of SubscriberName_parse: stores the trimmed name.
SubscriberName_parse_trimming(s) ==
    IF Trim(s) = <<>> \/ GraphemeCount(s) > MaxNameGraphemes
       \/ Range(s) \cap forbidden_characters # {}
    THEN Err(s \o <<" is not a valid subscriber name.">>)
    ELSE Ok(Trim(s))

\* A mutant of SubscriberName_parse: the length counted is that of s.chars().
SubscriberName_parse_chars(s) ==
    IF Trim(s) = <<>> \/ Len(s) > MaxNameGraphemes
       \/ Range(s) \cap forbidden_characters # {}
    THEN Err(s \o <<" is not a valid subscriber name.">>)
    ELSE Ok(s)

\* SubscriberName::parse: the name itself (untrimmed), or the error message.
SubscriberName_parse(s) ==
    LET is_empty_or_whitespace == Trim(s) = <<>>
        is_too_long == GraphemeCount(s) > MaxNameGraphemes
        contains_forbidden_characters == Range(s) \cap forbidden_characters # {}
    IN IF is_empty_or_whitespace \/ is_too_long \/ contains_forbidden_characters
       THEN Err(s \o <<" is not a valid subscriber name.">>)
       ELSE Ok(s)

\* SubscriberEmail::parse: an address is a local part, "@", a domain.
SubscriberEmail_parse(s) ==
    IF Len(s) = 3 /\ s[2] = "@" /\ s[1] # "" /\ s[3] # ""
    THEN Ok(s)
    ELSE Err(s \o <<" is not a valid subscriber email.">>)

\* TryFrom<SubscriberData> for NewSubscriber: the name first, then the email.
NewSubscriber_try_from(data) ==
    LET name == SubscriberName_parse(data.name)
        email == SubscriberEmail_parse(data.email)
    IN IF ~name.ok THEN Err(name.val)
       ELSE IF ~email.ok THEN Err(email.val)
       ELSE Ok([email |-> email.val, name |-> name.val])

\* web::Form<SubscriberData>: both fields must be present in the form.
Form_extract(email, name) ==
    IF email = None \/ name = None
    THEN Err(<<"Parse error">>)
    ELSE Ok([email |-> email[1], name |-> name[1]])

\* ------------------------------------------------- tokens, links and bodies

\* A sample of the characters the Alphanumeric distribution draws from.
Alphanumeric == <<"A", "b", "7", "Z", "k", "0">>

\* The k-th token the model lets the generator draw: TokenLen alphanumeric characters.
Token(k) == [i \in 1..TokenLen |-> Alphanumeric[((k + i) % Len(Alphanumeric)) + 1]]

\* generate_subscription_token: the values it may return.
Tokens == {Token(k) : k \in 1..MaxSubscribers}

\* Uuid::new_v4: the values it may return.
Ids == 1..MaxSubscribers

\* Utc::now(): the values it may return.
Times == {"2021-08-01T10:00:00Z"}

\* ApplicationBaseUrl, as the tests configure it.
base_url == <<"http://127.0.0.1">>
\* Delimiters that end a URL inside a body: the literal text after the link.
HtmlTail == "\">here</a> to confirm your subscription."
TextTail == " to confirm your subscription."

\* A mutant of confirmation_link: the query parameter is named "token".
confirmation_link_token(base, subscription_token) ==
    base \o <<"/subscriptions/confirm", "?", "token", "=">> \o subscription_token

\* format!("{}/subscriptions/confirm?subscription_token={}", base_url, subscription_token)
confirmation_link(base, subscription_token) ==
    base \o <<"/subscriptions/confirm", "?", "subscription_token", "=">> \o subscription_token

html_body(link) ==
    <<"Welcome to our newsletter!<br />Click <a href=\"">> \o link \o <<HtmlTail>>

\* A mutant of plain_text_body: the plain text names the site, not the link.
plain_text_body_site(link) ==
    <<"Welcome to our newsletter!\nVisit ">> \o base_url \o <<TextTail>>

plain_text_body(link) ==
    <<"Welcome to our newsletter!\nVisit ">> \o link \o <<TextTail>>

\* TestApp::find_url: the first URL of a body, from the base URL up to the text after it.
find_url(s) ==
    LET start == IndexOf(s, base_url[1])
        stops == {i \in (start + 1)..Len(s) : s[i] \in {HtmlTail, TextTail}}
        stop == IF stops = {} THEN Len(s) + 1
                ELSE CHOOSE i \in stops : \A j \in stops : i <= j
    IN IF start = 0 THEN None ELSE Some(SubSeq(s, start, stop - 1))

\* A mutant of Query_extract: a missing subscription_token defaults to the empty token.
Query_extract_default(url) ==
    LET q == IndexOf(url, "?")
    IN IF q # 0 /\ Len(url) >= q + 2 /\ url[q + 1] = "subscription_token" /\ url[q + 2] = "="
       THEN Ok([subscription_token |-> SubSeq(url, q + 3, Len(url))])
       ELSE Ok([subscription_token |-> <<>>])

\* web::Query<Parameters>: the subscription_token parameter of the request's query string.
Query_extract(url) ==
    LET q == IndexOf(url, "?")
    IN IF q # 0 /\ Len(url) >= q + 2 /\ url[q + 1] = "subscription_token" /\ url[q + 2] = "="
       THEN Ok([subscription_token |-> SubSeq(url, q + 3, Len(url))])
       ELSE Err(<<"Query deserialize error">>)

\* The token a confirmation email carries: the one in the link of its HTML body.
LinkToken(mail) ==
    LET link == find_url(mail.json.HtmlBody)
    IN IF link = None THEN None
       ELSE LET p == Query_extract(link[1])
            IN IF p.ok THEN Some(p.val.subscription_token) ELSE None

\* ------------------------------------------------------------- email client

\* EmailClient.sender, a configured address.
sender == <<"newsletter", "@", "example.com">>

\* What the email server may answer: an HTTP status, or nothing before the timeout (0).
Timeout == 0
ServerAnswers == {200, 304, 500, Timeout}

\* No request has been sent yet.
NoAnswer == -1

\* SendEmailRequest: the JSON body of the POST to {base_url}/email.
SendEmailRequest(to, subject, text_content, html_content) ==
    [From |-> sender, To |-> to, Subject |-> subject,
     TextBody |-> text_content, HtmlBody |-> html_content]

\* EmailClient.base_url and EmailClient.authorization_token, as configured.
email_base_url == <<"http://email.server">>
authorization_token == "server-token"

\* The request send_email builds: a POST of the JSON body to {base_url}/email.
send_email_post(subscriber_email, subject, text_content, html_content) ==
    [method |-> "POST",
     url |-> email_base_url \o <<"/email">>,
     headers |-> {<<"X-Postmark-Server-Token", authorization_token>>,
                  <<"Content-Type", "application/json">>},
     json |-> SendEmailRequest(subscriber_email, subject, text_content, html_content)]

\* A mutant of send_email_requests: a request that failed is sent once more.
send_email_requests_retry(request, answer) ==
    IF answer = Timeout \/ (answer >= 400 /\ answer <= 599)
    THEN <<request, request>>
    ELSE <<request>>

\* The requests one call of send_email makes: one, whatever the server answers.
send_email_requests(request, answer) == <<request>>

\* send().await? fails on a timeout; error_for_status()? fails on a 4xx or 5xx status.
send_email_result(answer) ==
    answer # Timeout /\ ~(answer >= 400 /\ answer <= 599)

\* The Result send_email returns to its caller.
Result_of(ok) == IF ok THEN "Ok" ELSE "Err"

\* ------------------------------------------------------ publisher credentials

\* base64 of a credential string, and its decoding.
Base64(s) == <<"base64[">> \o s \o <<"]">>
base64_decode(s) ==
    IF Len(s) >= 2 /\ s[1] = "base64[" /\ s[Len(s)] = "]"
    THEN Ok(SubSeq(s, 2, Len(s) - 1))
    ELSE Err(<<"Failed to base64-decode 'Basic' credentials.">>)

\* The PHC string of an Argon2 hash of a password.
Argon2Hash(password) == <<"$argon2id$">> \o password

\* The users table: the one publisher the test helpers store.
users ==
    {[user_id |-> "publisher-1", username |-> <<"admin">>,
      password_hash |-> Argon2Hash(<<"secret">>)]}

\* basic_authentication: the credentials of an Authorization header, or why not.
basic_authentication(authorization) ==
    IF authorization = None
    THEN Err(<<"The 'Authorization' header is missing.">>)
    ELSE LET header_value == authorization[1]
         IN IF header_value = <<>> \/ header_value[1] # "Basic "
            THEN Err(<<"The authentication scheme is not 'Basic'.">>)
            ELSE LET decoded == base64_decode(Tail(header_value))
                 IN IF ~decoded.ok THEN decoded
                    ELSE LET colon == IndexOf(decoded.val, ":")
                         IN IF colon = 0
                            THEN Err(<<"A password must be provided in 'Basic' auth.">>)
                            ELSE Ok([username |-> SubSeq(decoded.val, 1, colon - 1),
                                     password |-> SubSeq(decoded.val, colon + 1, Len(decoded.val))])

\* verify_password_hash: "ok", "auth" (mismatch) or "unexpected" (the stored hash does not parse).
verify_password_hash(expected_password_hash_phc, password_candidate) ==
    IF expected_password_hash_phc = <<>> \/ expected_password_hash_phc[1] # "$argon2id$"
    THEN "unexpected"
    ELSE IF expected_password_hash_phc = Argon2Hash(password_candidate) THEN "ok" ELSE "auth"

\* get_stored_credentials: the rows of users with that username.
get_stored_credentials(username) == {u \in users : u.username = username}

\* ---------------------------------------------------------------- responses

Response(status, headers, body) == [status |-> status, headers |-> headers, body |-> body]
NoResponse == Response(0, {}, <<>>)

\* HttpResponse::Ok().finish() and its siblings: a status and an empty body.
Finish_response(status) == Response(status, {}, <<>>)

\* A mutant of SubscribeError_status_code: every error is a 500.
SubscribeError_status_code_all_500(variant) == 500

\* ResponseError::status_code of SubscribeError.
SubscribeError_status_code(variant) ==
    IF variant = "ValidationError" THEN 400 ELSE 500

\* The Display text of a SubscribeError (ValidationError shows its inner string).
SubscribeError_display(variant, inner) ==
    CASE variant = "ValidationError" -> inner
      [] variant = "StoreTokenError" ->
            <<"Failed to store the confirmation token for a new subscriber.">>
      [] variant = "SendEmailError" -> <<"Failed to send a confirmation email.">>
      [] variant = "PoolError" ->
            <<"Failed to acquire a Postgres connection from the pool.">>
      [] variant = "InsertSubscriberError" ->
            <<"Failed to insert a new subscriber in the database.">>
      [] variant = "TransactionCommitError" ->
            <<"Failed to commit SQL transaction to store a new subscriber.">>

\* ResponseError::error_response, not overridden by SubscribeError: the status code
\* and the error's Display text as the body.
SubscribeError_response(variant, inner) ==
    Response(SubscribeError_status_code(variant), {<<"content-type", "text/plain; charset=utf-8">>},
             SubscribeError_display(variant, inner))

\* A mutant of PublishError_response: the 401 carries no challenge.
PublishError_response_bare(variant) ==
    IF variant = "UnexpectedError"
    THEN Response(500, {}, <<>>)
    ELSE Response(401, {}, <<>>)

\* PublishError::error_response.
PublishError_response(variant) ==
    IF variant = "UnexpectedError"
    THEN Response(500, {}, <<>>)
    ELSE Response(401, {<<"WWW-Authenticate", "Basic realm=\"publish\"">>}, <<>>)

\* The response of a failed extractor (Form, Query, Json): 400 and the extractor's message.
Extractor_response(message) ==
    Response(400, {<<"content-type", "text/plain; charset=utf-8">>}, message)

\* -------------------------------------------------------------------- state

VARIABLES
    subscriptions,        \* committed rows of the subscriptions table
    subscription_tokens,  \* committed rows of the subscription_tokens table
    outbox,               \* the requests the email server has received, in order
    req                   \* per request slot: the handler's position and locals

vars == <<subscriptions, subscription_tokens, outbox, req>>

\* The request slots: the handlers that may be running at once.
Requests == DOMAIN req

\* A request slot no handler runs in.
IdleRequest ==
    [pc |-> "idle", kind |-> "none",
     form_email |-> None, form_name |-> None,          \* subscribe: the form as sent
     new_subscriber |-> [email |-> <<>>, name |-> <<>>],
     tx_open |-> FALSE, tx_subscriptions |-> {}, tx_tokens |-> {},
     subscriber_id |-> 0, subscription_token |-> <<>>,
     url |-> <<>>,                                      \* confirm: the URL requested
     authorization |-> None, body |-> None,            \* publish: header and JSON body
     subscribers |-> <<>>,                              \* publish: rows still to send to
     sent |-> <<>>,                                     \* email requests this handler fired
     answer |-> NoAnswer,                               \* what the email server answered last
     send_result |-> "none",                            \* what its last send_email returned
     err |-> "none",                                    \* the error the handler ended with
     resp |-> NoResponse]

\* One request at a time.
Init ==
    /\ subscriptions = {}
    /\ subscription_tokens = {}
    /\ outbox = <<>>
    /\ req = [r \in {1} |-> IdleRequest]

\* MaxRequests requests at a time.
InitConcurrent ==
    /\ subscriptions = {}
    /\ subscription_tokens = {}
    /\ outbox = <<>>
    /\ req = [r \in 1..MaxRequests |-> IdleRequest]

\* A row written before addresses were validated: confirmed, with an email that
\* SubscriberEmail::parse rejects, and its token row.
LegacyId == MaxSubscribers + 1
LegacyRow ==
    [id |-> LegacyId, email |-> <<"ursula_le_guin", "gmail.com">>, name |-> <<"l", "e">>,
     subscribed_at |-> "2021-01-01T10:00:00Z", status |-> "confirmed"]
LegacyTokenRow == [subscription_token |-> Token(LegacyId), subscriber_id |-> LegacyId]

\* One request at a time, on a store that holds the legacy row.
InitLegacy ==
    /\ subscriptions = {LegacyRow}
    /\ subscription_tokens = {LegacyTokenRow}
    /\ outbox = <<>>
    /\ req = [r \in {1} |-> IdleRequest]

\* ------------------------------------------------------------------- inputs

LeGuinEmail == <<"ursula_le_guin", "@", "gmail.com">>
BobEmail == <<"bob", "@", "example.com">>
\* "le guin", sent with a trailing blank.
LeGuinName == <<"l", "e", " ", "g", "u", "i", "n", " ">>

Form(email, name) == [email |-> email, name |-> name]

\* The forms that parse into a NewSubscriber.
ValidForms ==
    {Form(Some(LeGuinEmail), Some(LeGuinName)), Form(Some(BobEmail), Some(LeGuinName))}

\* The form every client of the concurrent runs posts: duplicate submissions.
DuplicateForms == {Form(Some(LeGuinEmail), Some(LeGuinName))}

\* The forms clients post to /subscriptions: valid ones, ones with a field missing,
\* and ones with a field that does not parse.
Forms ==
    ValidForms
    \cup {Form(None, Some(LeGuinName)), Form(Some(LeGuinEmail), None), Form(None, None),
          Form(Some(<<"ursula_le_guin", "gmail.com">>), Some(LeGuinName)),
          Form(Some(<<>>), Some(LeGuinName)),
          Form(Some(LeGuinEmail), Some(<<" ">>)),
          Form(Some(LeGuinEmail), Some(<<>>)),
          Form(Some(LeGuinEmail), Some(<<"l", "e", "(">>))}

\* A token no generator returns (the tests' tokenNotInDatabase).
UnknownToken == <<"t", "o", "k", "e", "n", "N", "o", "t", "I", "n", "D", "a", "t", "a", "b", "a", "s", "e">>

\* The links the emails received so far carry.
OutboxLinks ==
    {l[1] : l \in ({find_url(outbox[i].json.HtmlBody) : i \in 1..Len(outbox)}
                   \cup {find_url(outbox[i].json.TextBody) : i \in 1..Len(outbox)}) \ {None}}

\* The URLs a client may request from /subscriptions/confirm: a link it received by
\* email, the bare path, or a link with a token of its own making (tokens are
\* unguessable: a client never names a generated token it was not sent).
ConfirmUrls ==
    OutboxLinks
    \cup {base_url \o <<"/subscriptions/confirm">>}
    \cup {confirmation_link(base_url, UnknownToken)}

\* The links a client may try that name a token a subscribe has generated and not
\* (or not yet) committed: its transaction is still open, or was rolled back.
UncommittedLinks ==
    {confirmation_link(base_url, req[r].subscription_token) :
        r \in {q \in Requests :
                  /\ req[q].kind = "subscribe"
                  /\ req[q].subscription_token # <<>>
                  /\ \A x \in subscription_tokens :
                        x.subscription_token # req[q].subscription_token}}

Issue ==
    [title |-> "Newsletter title",
     content |-> [html |-> <<"<p>", "Newsletter body", "</p>">>, text |-> <<"Newsletter body">>]]

Publish(authorization, body) == [authorization |-> authorization, body |-> body]
Basic(credentials) == Some(<<"Basic ">> \o Base64(credentials))

\* The publish requests of the stored publisher.
ValidPublishes == {Publish(Basic(<<"admin", ":", "secret">>), Some(Issue))}

\* The publish requests clients send: also without a JSON body that deserializes,
\* without or with a malformed header, with a wrong password, with an unknown username.
Publishes ==
    ValidPublishes
    \cup {Publish(Basic(<<"admin", ":", "secret">>), None),
          Publish(None, None),
          Publish(None, Some(Issue)),
          Publish(Some(<<"Bearer ", "abc">>), Some(Issue)),
          Publish(Some(<<"Basic ", "not-base64">>), Some(Issue)),
          Publish(Basic(<<"admin">>), Some(Issue)),
          Publish(Basic(<<"admin", ":", "wrong">>), Some(Issue)),
          Publish(Basic(<<"nobody", ":", "wrong">>), Some(Issue)),
          Publish(Basic(<<"nobody", ":", "secret">>), Some(Issue))}

\* Ids and tokens in use, in the store or in a handler.
UsedIds == {s.id : s \in subscriptions} \cup {req[r].subscriber_id : r \in Requests}
UsedTokens ==
    {x.subscription_token : x \in subscription_tokens}
    \cup {req[r].subscription_token : r \in Requests}

\* Uuid::new_v4 and generate_subscription_token return a random value, which differs
\* from every value in use; which one is immaterial, and the model takes the first.
FreshIds ==
    LET free == Ids \ UsedIds
    IN {i \in free : \A j \in free : i <= j}
FreshTokens ==
    LET free == {k \in 1..MaxSubscribers : Token(k) \notin UsedTokens}
    IN {Token(k) : k \in {i \in free : \A j \in free : i <= j}}

\* ------------------------------------------------------------ request steps

Set(r, q) == req' = [req EXCEPT ![r] = q]
\* The handler returns: Ok(response), or the error err, which becomes the response.
Respond(q, err, response) == [q EXCEPT !.pc = "done", !.err = err, !.resp = response]
\* Dropping an uncommitted Transaction rolls it back.
Rollback(q) == [q EXCEPT !.tx_open = FALSE, !.tx_subscriptions = {}, !.tx_tokens = {}]

\* A slot takes a new request once the handler in it has responded.
Free(r) == req[r].pc \in {"idle", "done"}

\* A mutant of health_check: the check pings the store, and answers 500 when that fails.
health_check_store(r) ==
    /\ Free(r)
    /\ \E ok \in BOOLEAN :
          Set(r, Respond([IdleRequest EXCEPT !.kind = "health_check"],
                         IF ok THEN "none" ELSE "sqlx::Error",
                         Finish_response(IF ok THEN 200 ELSE 500)))
    /\ UNCHANGED <<subscriptions, subscription_tokens, outbox>>

\* health_check
health_check(r) ==
    /\ Free(r)
    /\ Set(r, Respond([IdleRequest EXCEPT !.kind = "health_check"], "none", Finish_response(200)))
    /\ UNCHANGED <<subscriptions, subscription_tokens, outbox>>

\* ---------------------------------------------------------------- subscribe

\* subscribe, up to its first storage call: the form is extracted, parsed into a
\* NewSubscriber, and a transaction is begun on a pooled connection.
subscribe(r, forms) ==
    /\ Free(r)
    /\ \E f \in forms, begin_ok \in BOOLEAN :
          LET q == [IdleRequest EXCEPT !.kind = "subscribe",
                                       !.form_email = f.email, !.form_name = f.name]
              form == Form_extract(f.email, f.name)
              new_subscriber == NewSubscriber_try_from(form.val)
          IN IF ~form.ok
             THEN Set(r, Respond(q, "extractor", Extractor_response(form.val)))
             ELSE IF ~new_subscriber.ok
             THEN Set(r, Respond(q, "ValidationError",
                                 SubscribeError_response("ValidationError", new_subscriber.val)))
             ELSE IF ~begin_ok
             THEN Set(r, Respond([q EXCEPT !.new_subscriber = new_subscriber.val], "PoolError",
                                 SubscribeError_response("PoolError", <<>>)))
             ELSE Set(r, [q EXCEPT !.new_subscriber = new_subscriber.val,
                                   !.tx_open = TRUE, !.pc = "insert_subscriber"])
    /\ UNCHANGED <<subscriptions, subscription_tokens, outbox>>

\* The row insert_subscriber writes.
NewRow(subscriber_id, new_subscriber, now) ==
    [id |-> subscriber_id, email |-> new_subscriber.email, name |-> new_subscriber.name,
     subscribed_at |-> now, status |-> "pending_confirmation"]

\* The constraints of the subscriptions table (its migration is not among the
\* sources): id is the primary key; two rows may hold the same email.
subscriptions_accepts(rows, row) == \A s \in rows : s.id # row.id

\* A mutant of insert_subscriber: the INSERT runs on the pool, outside the transaction.
insert_subscriber_on_pool(r) ==
    /\ req[r].pc = "insert_subscriber"
    /\ \E ok \in BOOLEAN :
          IF ok
          THEN \E subscriber_id \in FreshIds, now \in Times, token \in FreshTokens :
                  /\ subscriptions' =
                        subscriptions \cup {NewRow(subscriber_id, req[r].new_subscriber, now)}
                  /\ Set(r, [req[r] EXCEPT
                               !.subscriber_id = subscriber_id,
                               !.subscription_token = token,
                               !.pc = "store_token"])
          ELSE /\ Set(r, Respond(Rollback(req[r]), "InsertSubscriberError",
                                 SubscribeError_response("InsertSubscriberError", <<>>)))
               /\ UNCHANGED subscriptions
    /\ UNCHANGED <<subscription_tokens, outbox>>

\* insert_subscriber inside the transaction, then generate_subscription_token.
insert_subscriber(r) ==
    /\ req[r].pc = "insert_subscriber"
    /\ \E ok \in BOOLEAN :
          IF ok
          THEN \E subscriber_id \in FreshIds, now \in Times, token \in FreshTokens :
                  /\ subscriptions_accepts(subscriptions \cup req[r].tx_subscriptions,
                                           NewRow(subscriber_id, req[r].new_subscriber, now))
                  /\ Set(r, [req[r] EXCEPT
                            !.tx_subscriptions = @ \cup {NewRow(subscriber_id, req[r].new_subscriber, now)},
                            !.subscriber_id = subscriber_id,
                            !.subscription_token = token,
                            !.pc = "store_token"])
          ELSE Set(r, Respond(Rollback(req[r]), "InsertSubscriberError",
                              SubscribeError_response("InsertSubscriberError", <<>>)))
    /\ UNCHANGED <<subscriptions, subscription_tokens, outbox>>

\* A mutant of AfterStoreToken: the email is sent before the transaction is committed.
AfterStoreToken_send == "send_confirmation_email"

\* The position of subscribe after store_token has succeeded.
AfterStoreToken == "commit"

\* A mutant of store_token: the INSERT runs on the pool, outside the transaction.
store_token_on_pool(r) ==
    /\ req[r].pc = "store_token"
    /\ \E ok \in BOOLEAN :
          IF ok
          THEN /\ subscription_tokens' =
                    subscription_tokens
                    \cup {[subscription_token |-> req[r].subscription_token,
                           subscriber_id |-> req[r].subscriber_id]}
               /\ Set(r, [req[r] EXCEPT !.pc = AfterStoreToken])
          ELSE /\ Set(r, Respond(Rollback(req[r]), "StoreTokenError",
                                 SubscribeError_response("StoreTokenError", <<>>)))
               /\ UNCHANGED subscription_tokens
    /\ UNCHANGED <<subscriptions, outbox>>

\* store_token inside the transaction.
store_token(r) ==
    /\ req[r].pc = "store_token"
    /\ \E ok \in BOOLEAN :
          IF ok
          THEN Set(r, [req[r] EXCEPT
                         !.tx_tokens = @ \cup {[subscription_token |-> req[r].subscription_token,
                                                subscriber_id |-> req[r].subscriber_id]},
                         !.pc = AfterStoreToken])
          ELSE Set(r, Respond(Rollback(req[r]), "StoreTokenError",
                              SubscribeError_response("StoreTokenError", <<>>)))
    /\ UNCHANGED <<subscriptions, subscription_tokens, outbox>>

\* A mutant of transaction_commit: a row whose email is already stored is left out
\* (INSERT ... ON CONFLICT DO NOTHING).
transaction_commit_dedup(r) ==
    /\ req[r].pc = "commit"
    /\ \E ok \in BOOLEAN :
          IF ok
          THEN /\ subscriptions' =
                    subscriptions
                    \cup {row \in req[r].tx_subscriptions :
                            \A s \in subscriptions : s.email # row.email}
               /\ subscription_tokens' = subscription_tokens \cup req[r].tx_tokens
               /\ Set(r, [Rollback(req[r]) EXCEPT !.pc = "send_confirmation_email"])
          ELSE /\ Set(r, Respond(Rollback(req[r]), "TransactionCommitError",
                                 SubscribeError_response("TransactionCommitError", <<>>)))
               /\ UNCHANGED <<subscriptions, subscription_tokens>>
    /\ UNCHANGED outbox

\* transaction.commit(): the rows written in the transaction become visible together.
transaction_commit(r) ==
    /\ req[r].pc = "commit"
    /\ \E ok \in BOOLEAN :
          IF ok
          THEN /\ subscriptions' = subscriptions \cup req[r].tx_subscriptions
               /\ subscription_tokens' = subscription_tokens \cup req[r].tx_tokens
               /\ Set(r, [Rollback(req[r]) EXCEPT !.pc = "send_confirmation_email"])
          ELSE /\ Set(r, Respond(Rollback(req[r]), "TransactionCommitError",
                                 SubscribeError_response("TransactionCommitError", <<>>)))
               /\ UNCHANGED <<subscriptions, subscription_tokens>>
    /\ UNCHANGED outbox

\* A mutant of send_confirmation_email: a failed send deletes the rows of the subscriber.
send_confirmation_email_undo(r) ==
    /\ req[r].pc = "send_confirmation_email"
    /\ \E answer \in ServerAnswers :
          LET link == confirmation_link(base_url, req[r].subscription_token)
              mail == send_email_post(req[r].new_subscriber.email, "Welcome!",
                                       plain_text_body(link), html_body(link))
              q == [req[r] EXCEPT !.sent = Append(@, mail), !.answer = answer,
                                  !.send_result = Result_of(send_email_result(answer))]
          IN /\ outbox' = outbox \o send_email_requests(mail, answer)
             /\ IF send_email_result(answer)
                THEN /\ Set(r, Respond(q, "none", Finish_response(200)))
                     /\ UNCHANGED <<subscriptions, subscription_tokens>>
                ELSE /\ Set(r, Respond(q, "SendEmailError",
                                       SubscribeError_response("SendEmailError", <<>>)))
                     /\ subscriptions' = {s \in subscriptions : s.id # req[r].subscriber_id}
                     /\ subscription_tokens' =
                          {x \in subscription_tokens : x.subscriber_id # req[r].subscriber_id}

\* send_confirmation_email: one POST to the email server, then the response of subscribe.
send_confirmation_email(r) ==
    /\ req[r].pc = "send_confirmation_email"
    /\ \E answer \in ServerAnswers :
          LET link == confirmation_link(base_url, req[r].subscription_token)
              mail == send_email_post(req[r].new_subscriber.email, "Welcome!",
                                       plain_text_body(link), html_body(link))
              q == [req[r] EXCEPT !.sent = Append(@, mail), !.answer = answer,
                                  !.send_result = Result_of(send_email_result(answer))]
          IN /\ outbox' = outbox \o send_email_requests(mail, answer)
             /\ IF send_email_result(answer)
                THEN Set(r, Respond(q, "none", Finish_response(200)))
                ELSE Set(r, Respond(q, "SendEmailError",
                                    SubscribeError_response("SendEmailError", <<>>)))
    /\ UNCHANGED <<subscriptions, subscription_tokens>>

\* ------------------------------------------------------------------ confirm

\* A mutant of TokenRows: the SELECT has lost its WHERE clause.
TokenRows_any(subscription_token) == subscription_tokens

\* A mutant of TokenRows: a token is spent once its subscriber is confirmed.
TokenRows_unspent(subscription_token) ==
    {x \in subscription_tokens :
        /\ x.subscription_token = subscription_token
        /\ \E s \in subscriptions : s.id = x.subscriber_id /\ s.status # "confirmed"}

\* A mutant of TokenRows: the SELECT also sees the rows of open transactions.
TokenRows_dirty(subscription_token) ==
    {x \in subscription_tokens \cup UNION {req[r].tx_tokens : r \in Requests} :
        x.subscription_token = subscription_token}

\* SELECT subscriber_id FROM subscription_tokens WHERE subscription_token = $1
TokenRows(subscription_token) ==
    {x \in subscription_tokens : x.subscription_token = subscription_token}

\* A mutant of confirm: a failed lookup is answered like a token that was not found.
confirm_error_as_none(r, urls) ==
    /\ Free(r)
    /\ \E url \in urls, ok \in BOOLEAN :
          LET q == [IdleRequest EXCEPT !.kind = "confirm", !.url = url]
              parameters == Query_extract(url)
              rows == TokenRows(parameters.val.subscription_token)
          IN IF ~parameters.ok
             THEN Set(r, Respond(q, "extractor", Extractor_response(parameters.val)))
             ELSE IF ~ok
             THEN Set(r, Respond(q, "sqlx::Error", Finish_response(401)))
             ELSE IF rows = {}
             THEN Set(r, Respond(q, "none", Finish_response(401)))
             ELSE \E x \in rows :
                     Set(r, [q EXCEPT !.subscriber_id = x.subscriber_id,
                                      !.pc = "confirm_subscriber"])
    /\ UNCHANGED <<subscriptions, subscription_tokens, outbox>>

\* confirm, up to the answer of get_subscriber_id_from_token.
confirm(r, urls) ==
    /\ Free(r)
    /\ \E url \in urls, ok \in BOOLEAN :
          LET q == [IdleRequest EXCEPT !.kind = "confirm", !.url = url]
              parameters == Query_extract(url)
              rows == TokenRows(parameters.val.subscription_token)
          IN IF ~parameters.ok
             THEN Set(r, Respond(q, "extractor", Extractor_response(parameters.val)))
             ELSE IF ~ok
             THEN Set(r, Respond(q, "sqlx::Error", Finish_response(500)))
             ELSE IF rows = {}
             THEN Set(r, Respond(q, "none", Finish_response(401)))
             ELSE \E x \in rows :
                     Set(r, [q EXCEPT !.subscriber_id = x.subscriber_id,
                                      !.pc = "confirm_subscriber"])
    /\ UNCHANGED <<subscriptions, subscription_tokens, outbox>>

\* A mutant of ConfirmedRows: the UPDATE toggles the status.
ConfirmedRows_toggle(subscriber_id) ==
    {IF s.id = subscriber_id
     THEN [s EXCEPT !.status = IF @ = "confirmed" THEN "pending_confirmation" ELSE "confirmed"]
     ELSE s : s \in subscriptions}

\* A mutant of ConfirmedRows: the UPDATE has lost its WHERE clause.
ConfirmedRows_every(subscriber_id) ==
    {[s EXCEPT !.status = "confirmed"] : s \in subscriptions}

\* UPDATE subscriptions SET status = 'confirmed' WHERE id = $1
ConfirmedRows(subscriber_id) ==
    {IF s.id = subscriber_id THEN [s EXCEPT !.status = "confirmed"] ELSE s : s \in subscriptions}

\* A mutant of confirm_subscriber: a token is deleted once it has been redeemed.
confirm_subscriber_once(r) ==
    /\ req[r].pc = "confirm_subscriber"
    /\ \E ok \in BOOLEAN :
          IF ok
          THEN /\ subscriptions' = ConfirmedRows(req[r].subscriber_id)
               /\ subscription_tokens' =
                    {x \in subscription_tokens : x.subscriber_id # req[r].subscriber_id}
               /\ Set(r, Respond(req[r], "none", Finish_response(200)))
          ELSE /\ Set(r, Respond(req[r], "sqlx::Error", Finish_response(500)))
               /\ UNCHANGED <<subscriptions, subscription_tokens>>
    /\ UNCHANGED outbox

\* confirm_subscriber, then the response of confirm.
confirm_subscriber(r) ==
    /\ req[r].pc = "confirm_subscriber"
    /\ \E ok \in BOOLEAN :
          IF ok
          THEN /\ subscriptions' = ConfirmedRows(req[r].subscriber_id)
               /\ Set(r, Respond(req[r], "none", Finish_response(200)))
          ELSE /\ Set(r, Respond(req[r], "sqlx::Error", Finish_response(500)))
               /\ UNCHANGED subscriptions
    /\ UNCHANGED <<subscription_tokens, outbox>>

\* ------------------------------------------------------------------ publish

\* A mutant of validate_credentials: a username without stored credentials passes.
validate_credentials_unknown_ok(credentials, query_ok) ==
    IF ~query_ok THEN "unexpected"
    ELSE LET stored == get_stored_credentials(credentials.username)
         IN IF stored = {} THEN "ok"
            ELSE LET row == CHOOSE u \in stored : TRUE
                 IN verify_password_hash(row.password_hash, credentials.password)

\* validate_credentials: "ok", "auth" or "unexpected".
validate_credentials(credentials, query_ok) ==
    IF ~query_ok THEN "unexpected"
    ELSE LET stored == get_stored_credentials(credentials.username)
         IN IF stored = {} THEN "auth"
            ELSE LET row == CHOOSE u \in stored : TRUE
                 IN verify_password_hash(row.password_hash, credentials.password)

\* publish_newsletter, up to the end of validate_credentials.
publish_newsletter(r, publishes) ==
    /\ Free(r)
    /\ \E p \in publishes, query_ok \in BOOLEAN :
          LET q == [IdleRequest EXCEPT !.kind = "publish_newsletter",
                                       !.authorization = p.authorization, !.body = p.body]
              credentials == basic_authentication(p.authorization)
              outcome == validate_credentials(credentials.val, query_ok)
          IN IF p.body = None
             THEN Set(r, Respond(q, "extractor", Extractor_response(<<"Json deserialize error">>)))
             ELSE IF ~credentials.ok
             THEN Set(r, Respond(q, "AuthError", PublishError_response("AuthError")))
             ELSE IF outcome = "unexpected"
             THEN Set(r, Respond(q, "UnexpectedError", PublishError_response("UnexpectedError")))
             ELSE IF outcome = "auth"
             THEN Set(r, Respond(q, "AuthError", PublishError_response("AuthError")))
             ELSE Set(r, [q EXCEPT !.pc = "get_confirmed_subscribers"])
    /\ UNCHANGED <<subscriptions, subscription_tokens, outbox>>

\* A mutant of get_confirmed_subscribers: the SELECT has lost its WHERE clause.
get_confirmed_subscribers_all(r) ==
    /\ req[r].pc = "get_confirmed_subscribers"
    /\ \E ok \in BOOLEAN :
          IF ~ok
          THEN Set(r, Respond(req[r], "UnexpectedError", PublishError_response("UnexpectedError")))
          ELSE \E rows \in Orders(subscriptions) :
                  LET confirmed_subscribers ==
                          [i \in 1..Len(rows) |-> SubscriberEmail_parse(rows[i].email)]
                  IN IF confirmed_subscribers = <<>>
                     THEN Set(r, Respond(req[r], "none", Finish_response(200)))
                     ELSE Set(r, [req[r] EXCEPT !.subscribers = confirmed_subscribers,
                                                !.pc = "send_email"])
    /\ UNCHANGED <<subscriptions, subscription_tokens, outbox>>

\* get_confirmed_subscribers: the emails of the confirmed rows, each parsed again.
get_confirmed_subscribers(r) ==
    /\ req[r].pc = "get_confirmed_subscribers"
    /\ \E ok \in BOOLEAN :
          IF ~ok
          THEN Set(r, Respond(req[r], "UnexpectedError", PublishError_response("UnexpectedError")))
          ELSE \E rows \in Orders({s \in subscriptions : s.status = "confirmed"}) :
                  LET confirmed_subscribers ==
                          [i \in 1..Len(rows) |-> SubscriberEmail_parse(rows[i].email)]
                  IN IF confirmed_subscribers = <<>>
                     THEN Set(r, Respond(req[r], "none", Finish_response(200)))
                     ELSE Set(r, [req[r] EXCEPT !.subscribers = confirmed_subscribers,
                                                !.pc = "send_email"])
    /\ UNCHANGED <<subscriptions, subscription_tokens, outbox>>

\* A mutant of publish_send_email: a row whose email did not parse ends the loop.
publish_send_email_break(r) ==
    /\ req[r].pc = "send_email"
    /\ LET subscriber == Head(req[r].subscribers)
           rest == Tail(req[r].subscribers)
           issue == req[r].body[1]
           next(q) == IF rest = <<>> THEN Respond(q, "none", Finish_response(200)) ELSE q
       IN IF subscriber.ok
          THEN /\ Cardinality({i \in 1..Len(outbox) : outbox[i].json.Subject = issue.title})
                    < MaxNewsletterMails
               /\ \E answer \in ServerAnswers :
                     LET mail == send_email_post(subscriber.val, issue.title,
                                                  issue.content.html, issue.content.text)
                         q == [req[r] EXCEPT !.sent = Append(@, mail), !.subscribers = rest,
                                             !.answer = answer,
                                             !.send_result = Result_of(send_email_result(answer))]
                     IN /\ outbox' = outbox \o send_email_requests(mail, answer)
                        /\ IF send_email_result(answer)
                           THEN Set(r, next(q))
                           ELSE Set(r, Respond(q, "UnexpectedError",
                                               PublishError_response("UnexpectedError")))
          ELSE /\ Set(r, Respond([req[r] EXCEPT !.subscribers = rest], "none",
                                 Finish_response(200)))
               /\ UNCHANGED outbox
    /\ UNCHANGED <<subscriptions, subscription_tokens>>

\* A mutant of publish_send_email: a failed send is skipped, and the loop goes on.
publish_send_email_skip(r) ==
    /\ req[r].pc = "send_email"
    /\ LET subscriber == Head(req[r].subscribers)
           rest == Tail(req[r].subscribers)
           issue == req[r].body[1]
           next(q) == IF rest = <<>> THEN Respond(q, "none", Finish_response(200)) ELSE q
       IN IF subscriber.ok
          THEN /\ Cardinality({i \in 1..Len(outbox) : outbox[i].json.Subject = issue.title})
                    < MaxNewsletterMails
               /\ \E answer \in ServerAnswers :
                     LET mail == send_email_post(subscriber.val, issue.title,
                                                  issue.content.html, issue.content.text)
                         q == [req[r] EXCEPT !.sent = Append(@, mail), !.subscribers = rest,
                                             !.answer = answer,
                                             !.send_result = Result_of(send_email_result(answer))]
                     IN /\ outbox' = outbox \o send_email_requests(mail, answer)
                        /\ Set(r, next(q))
          ELSE /\ Set(r, next([req[r] EXCEPT !.subscribers = rest]))
               /\ UNCHANGED outbox
    /\ UNCHANGED <<subscriptions, subscription_tokens>>

\* One turn of the loop of publish_newsletter: a row whose email parsed is sent the
\* issue, one that did not is skipped with a warning; a failed send ends the handler.
publish_send_email(r) ==
    /\ req[r].pc = "send_email"
    /\ LET subscriber == Head(req[r].subscribers)
           rest == Tail(req[r].subscribers)
           issue == req[r].body[1]
           next(q) == IF rest = <<>> THEN Respond(q, "none", Finish_response(200)) ELSE q
       IN IF subscriber.ok
          THEN /\ Cardinality({i \in 1..Len(outbox) : outbox[i].json.Subject = issue.title})
                    < MaxNewsletterMails
               /\ \E answer \in ServerAnswers :
                     LET mail == send_email_post(subscriber.val, issue.title,
                                                  issue.content.html, issue.content.text)
                         q == [req[r] EXCEPT !.sent = Append(@, mail), !.subscribers = rest,
                                             !.answer = answer,
                                             !.send_result = Result_of(send_email_result(answer))]
                     IN /\ outbox' = outbox \o send_email_requests(mail, answer)
                        /\ IF send_email_result(answer)
                           THEN Set(r, next(q))
                           ELSE Set(r, Respond(q, "UnexpectedError",
                                               PublishError_response("UnexpectedError")))
          ELSE /\ Set(r, next([req[r] EXCEPT !.subscribers = rest]))
               /\ UNCHANGED outbox
    /\ UNCHANGED <<subscriptions, subscription_tokens>>

\* ------------------------------------------------------------ specifications

\* One request at a time, with every kind of input.
Next ==
    \E r \in {1} :
        \/ subscribe(r, Forms)
        \/ insert_subscriber(r)
        \/ store_token(r)
        \/ transaction_commit(r)
        \/ send_confirmation_email(r)
        \/ confirm(r, ConfirmUrls)
        \/ confirm_subscriber(r)
        \/ publish_newsletter(r, Publishes)
        \/ get_confirmed_subscribers(r)
        \/ publish_send_email(r)
        \/ health_check(r)

Spec == Init /\ [][Next]_vars

\* One request at a time, with every kind of input, on a store with a legacy row.
SpecLegacy == InitLegacy /\ [][Next]_vars

\* MaxRequests requests at a time, their steps interleaved: duplicate submissions of
\* one valid form, confirmations, publishes of the stored publisher, and health
\* checks. Rejected forms and rejected credentials, which end a request before its
\* first storage call whatever else runs, are left to Spec.
NextConcurrent ==
    \E r \in 1..MaxRequests :
        \/ subscribe(r, DuplicateForms)
        \/ insert_subscriber(r)
        \/ store_token(r)
        \/ transaction_commit(r)
        \/ send_confirmation_email(r)
        \/ confirm(r, ConfirmUrls)
        \/ confirm_subscriber(r)
        \/ publish_newsletter(r, ValidPublishes)
        \/ get_confirmed_subscribers(r)
        \/ publish_send_email(r)
        \/ health_check(r)

SpecConcurrent == InitConcurrent /\ [][NextConcurrent]_vars

\* The characters of the names SubscriberName::parse is applied to: a letter, a blank,
\* a combining mark, and each forbidden character.
NameAlphabet == {"a", " ", "COMBINING RING ABOVE"} \cup forbidden_characters

\* The names of up to MaxNameLen characters.
ShortNames == UNION {[1..n -> NameAlphabet] : n \in 0..MaxNameLen}

\* "a".repeat(n), as the tests of SubscriberName build their long names.
Repeat_a(n) == [i \in 1..n |-> "a"]

\* The names SubscriberName::parse is applied to: the short ones, and the long ones
\* of up to MaxNameGraphemes + 1 characters, a run of "a" before a short name.
Names ==
    ShortNames \cup {Repeat_a(MaxNameGraphemes + 1 - MaxNameLen) \o s : s \in ShortNames}

\* A caller that is about to apply SubscriberName::parse to s.
ParseCall(s) == [pc |-> "idle", kind |-> "SubscriberName::parse", s |-> s, result |-> None]

\* Every name is an input of SubscriberName::parse.
InitParse ==
    /\ subscriptions = {}
    /\ subscription_tokens = {}
    /\ outbox = <<>>
    /\ req \in {[r \in {1} |-> ParseCall(s)] : s \in Names}

\* SubscriberName::parse(s) returns: the caller holds the Result.
SubscriberName_parse_call(r) ==
    /\ req[r].pc = "idle"
    /\ Set(r, [req[r] EXCEPT !.pc = "done", !.result = Some(SubscriberName_parse(req[r].s))])
    /\ UNCHANGED <<subscriptions, subscription_tokens, outbox>>

NextParse == \E r \in {1} : SubscriberName_parse_call(r)

\* SubscriberName::parse, applied to every name of Names.
SpecParse == InitParse /\ [][NextParse]_vars

\* MaxRequests requests at a time, their steps interleaved, with clients that also
\* try the tokens of subscribes whose transaction is open or was rolled back.
NextIsolation ==
    \E r \in 1..MaxRequests :
        \/ subscribe(r, DuplicateForms)
        \/ insert_subscriber(r)
        \/ store_token(r)
        \/ transaction_commit(r)
        \/ send_confirmation_email(r)
        \/ confirm(r, ConfirmUrls \cup UncommittedLinks)
        \/ confirm_subscriber(r)
        \/ publish_newsletter(r, ValidPublishes)
        \/ get_confirmed_subscribers(r)
        \/ publish_send_email(r)

SpecIsolation == InitConcurrent /\ [][NextIsolation]_vars

\* ------------------------------------------------------------------- claims

\* The ids of the committed subscriber rows, and the ids the committed token rows refer to.
SubscriberIds == {s.id : s \in subscriptions}
TokenSubscriberIds == {x.subscriber_id : x \in subscription_tokens}

\* r runs, or has run, a handler of this kind, and the handler has responded.
Done(r, kind) == req[r].kind = kind /\ req[r].pc = "done"

\* The step is one of the handler in slot r, which is of this kind after it.
StepOf(r, kind) == req'[r] # req[r] /\ req'[r].kind = kind

\* The errors of the storage steps of subscribe.
StorageErrors ==
    {"PoolError", "InsertSubscriberError", "StoreTokenError", "TransactionCommitError"}

\* C1: in every committed state, a subscriber row exists if and only if a token row
\* referencing its id exists: the two are persisted together or not at all.
C1_RowIffToken == SubscriberIds = TokenSubscriberIds

\* C1: a subscriber is committed while another subscribe has failed at its commit.
C1_Witness ==
    /\ subscriptions # {}
    /\ \E r \in Requests : Done(r, "subscribe") /\ req[r].err = "TransactionCommitError"

\* C2: the status of a row only moves from pending_confirmation to confirmed; no step
\* of subscribe, confirm, publish_newsletter or health_check removes a row, or changes
\* the status of a confirmed row.
C2_StatusOnlyForward ==
    [][\A s \in subscriptions :
          /\ \E t \in subscriptions' : t.id = s.id
          /\ \A t \in subscriptions' :
                t.id = s.id =>
                    \/ t.status = s.status
                    \/ s.status = "pending_confirmation" /\ t.status = "confirmed"]_vars

\* C2: a subscribe has succeeded while another subscriber is confirmed.
C2_Witness ==
    /\ \E s \in subscriptions : s.status = "confirmed"
    /\ \E r \in Requests : Done(r, "subscribe") /\ req[r].resp.status = 200

\* C3: confirm is idempotent. When a confirm of a URL has returned 200, every other
\* confirm of the same URL that meets no storage error returns 200; and the step of
\* confirm that updates a row already confirmed leaves the store as it was; and no
\* step of confirm sends an email.
C3_ConfirmIdempotent ==
    /\ [](\A r1, r2 \in Requests :
             /\ Done(r1, "confirm") /\ Done(r2, "confirm")
             /\ req[r1].url = req[r2].url
             /\ req[r1].resp.status = 200
             /\ req[r2].err # "sqlx::Error"
             => req[r2].resp.status = 200)
    /\ [][\A r \in Requests :
             StepOf(r, "confirm") =>
                 /\ outbox' = outbox
                 /\ req'[r].sent = <<>>
                 /\ subscription_tokens' = subscription_tokens
                 /\ (/\ req[r].pc = "confirm_subscriber"
                     /\ \E s \in subscriptions :
                           s.id = req[r].subscriber_id /\ s.status = "confirmed")
                    => subscriptions' = subscriptions]_vars

\* C3: two confirms of the same URL have returned 200.
C3_Witness ==
    \E r1, r2 \in Requests :
        /\ r1 # r2
        /\ Done(r1, "confirm") /\ Done(r2, "confirm")
        /\ req[r1].url = req[r2].url
        /\ req[r1].resp.status = 200 /\ req[r2].resp.status = 200

\* The confirm in slot c requested the link of the email the subscribe in slot r sent.
ConfirmsLinkOf(c, r) ==
    /\ Done(r, "subscribe") /\ req[r].resp.status = 200
    /\ Done(c, "confirm")
    /\ Len(req[r].sent) = 1
    /\ find_url(req[r].sent[1].json.HtmlBody) = Some(req[c].url)

\* C4: after a successful subscribe, a GET on the link of the email it sent returns 200
\* (when it meets no storage error), and the row that subscribe created, with the
\* email and the name as submitted, is confirmed.
C4_LinkConfirms ==
    \A r, c \in Requests :
        ConfirmsLinkOf(c, r) /\ req[c].err # "sqlx::Error" =>
            /\ req[c].resp.status = 200
            /\ \E s \in subscriptions :
                  /\ s.id = req[r].subscriber_id
                  /\ s.email = req[r].form_email[1]
                  /\ s.name = req[r].form_name[1]
                  /\ s.status = "confirmed"

\* C4: a confirm of the link a successful subscribe sent has returned 200.
C4_Witness ==
    \E r, c \in Requests : ConfirmsLinkOf(c, r) /\ req[c].resp.status = 200

\* The form is one subscribe rejects: a field is absent, or does not parse.
Rejected(email, name) ==
    \/ email = None
    \/ name = None
    \/ ~SubscriberName_parse(name[1]).ok
    \/ ~SubscriberEmail_parse(email[1]).ok

\* C5: a successful subscribe returns 200 and persists exactly one new subscriber row:
\* its commit adds one row, with a new id, the status pending_confirmation and the
\* email and the name as submitted; no other step of subscribe adds or changes a row;
\* and a subscribe that meets no error returns 200.
C5_SubscribePersistsOneRow ==
    /\ [][\A r \in Requests :
             StepOf(r, "subscribe") =>
                 IF req[r].pc = "commit" /\ req'[r].pc = "send_confirmation_email"
                 THEN \E row \in subscriptions' :
                         /\ row.id \notin SubscriberIds
                         /\ subscriptions' = subscriptions \cup {row}
                         /\ row.id = req[r].subscriber_id
                         /\ row.status = "pending_confirmation"
                         /\ row.email = req[r].form_email[1]
                         /\ row.name = req[r].form_name[1]
                 ELSE subscriptions' = subscriptions]_vars
    /\ [](\A r \in Requests :
             Done(r, "subscribe") =>
                 /\ req[r].err = "none" => req[r].resp.status = 200
                 /\ req[r].resp.status = 200 =>
                        \E row \in subscriptions :
                            /\ row.id = req[r].subscriber_id
                            /\ row.status = "pending_confirmation"
                            /\ row.email = req[r].form_email[1]
                            /\ row.name = req[r].form_name[1])

\* C5: a subscribe has returned 200 and its row, with the name as sent, is stored.
C5_Witness ==
    \E r \in Requests :
        /\ Done(r, "subscribe") /\ req[r].resp.status = 200
        /\ \E row \in subscriptions :
              row.id = req[r].subscriber_id /\ row.name = LeGuinName

\* C6: a subscribe whose email or name is absent, or is rejected by
\* SubscriberName::parse or SubscriberEmail::parse, returns 400 in its first step:
\* no transaction is opened, no row is written, no email is sent.
C6_RejectedFormIs400 ==
    [][\A r \in Requests :
          /\ Free(r) /\ StepOf(r, "subscribe")
          /\ Rejected(req'[r].form_email, req'[r].form_name)
          => /\ req'[r].pc = "done"
             /\ req'[r].resp.status = 400
             /\ ~req'[r].tx_open
             /\ req'[r].tx_subscriptions = {} /\ req'[r].tx_tokens = {}
             /\ req'[r].sent = <<>>
             /\ UNCHANGED <<subscriptions, subscription_tokens, outbox>>]_vars

\* C6: a subscribe with both fields present and one that does not parse has returned 400.
C6_Witness ==
    \E r \in Requests :
        /\ Done(r, "subscribe") /\ req[r].err = "ValidationError"
        /\ req[r].resp.status = 400

\* C7: when a storage step of subscribe fails (the begin, the insert of the subscriber,
\* the insert of the token, the commit), subscribe returns 500, no email is sent, and
\* the store is as it was before the call: no step of the call up to the failure has
\* changed a table, and the id and the token of the call are in no committed row.
C7_StorageFailureIs500 ==
    /\ [][\A r \in Requests :
             StepOf(r, "subscribe") =>
                 /\ req'[r].err \in StorageErrors =>
                        /\ req'[r].pc = "done"
                        /\ req'[r].resp.status = 500
                        /\ ~req'[r].tx_open
                        /\ req'[r].sent = <<>>
                        /\ UNCHANGED <<subscriptions, subscription_tokens, outbox>>
                 /\ req'[r].pc \in {"insert_subscriber", "store_token", "commit"} =>
                        UNCHANGED <<subscriptions, subscription_tokens, outbox>>]_vars
    /\ [](\A r \in Requests :
             Done(r, "subscribe") /\ req[r].err \in StorageErrors =>
                 /\ req[r].subscriber_id \notin SubscriberIds \cup TokenSubscriberIds
                 /\ \A x \in subscription_tokens :
                       x.subscription_token # req[r].subscription_token)

\* C7: a subscribe has failed after its insert, in a store that holds a subscriber.
C7_Witness ==
    \E r \in Requests :
        /\ Done(r, "subscribe") /\ req[r].err \in {"StoreTokenError", "TransactionCommitError"}
        /\ req[r].subscriber_id # 0
        /\ subscriptions # {}

\* The committed rows of the subscribe in slot r: its subscriber, pending, and its token.
RowsOfPersisted(r, rows, tokens) ==
    /\ \E s \in rows :
          /\ s.id = req[r].subscriber_id
          /\ s.email = req[r].new_subscriber.email
          /\ s.status = "pending_confirmation"
    /\ \E x \in tokens :
          /\ x.subscriber_id = req[r].subscriber_id
          /\ x.subscription_token = req[r].subscription_token

\* C8: when the send of the confirmation email fails, after the commit, subscribe
\* returns 500 and the subscriber row stays persisted, pending_confirmation, with
\* its token row.
C8_SendFailureKeepsRow ==
    /\ [][\A r \in Requests :
             StepOf(r, "subscribe") /\ req'[r].err = "SendEmailError" =>
                 /\ req[r].pc = "send_confirmation_email"
                 /\ req'[r].resp.status = 500
                 /\ RowsOfPersisted(r, subscriptions, subscription_tokens)
                 /\ UNCHANGED <<subscriptions, subscription_tokens>>]_vars
    /\ [](\A r \in Requests :
             Done(r, "subscribe") /\ req[r].err = "SendEmailError" =>
                 RowsOfPersisted(r, subscriptions, subscription_tokens))

\* C8: a subscribe has returned 500 for a failed send, and its row is stored.
C8_Witness ==
    \E r \in Requests :
        /\ Done(r, "subscribe") /\ req[r].err = "SendEmailError"
        /\ req[r].resp.status = 500
        /\ req[r].subscriber_id \in SubscriberIds

\* C9: a confirmation email is sent only after the commit: when the email server
\* receives one, the handler that sends it holds no open transaction, the token in
\* its link is already a committed token row, and that row maps to a committed
\* subscriber whose email is the recipient.
C9_EmailAfterCommit ==
    [][/\ \A i \in (Len(outbox) + 1)..Len(outbox') :
             outbox'[i].json.Subject = "Welcome!" =>
                 /\ LinkToken(outbox'[i]) # None
                 /\ \E x \in subscription_tokens :
                       /\ x.subscription_token = LinkToken(outbox'[i])[1]
                       /\ \E s \in subscriptions :
                             s.id = x.subscriber_id /\ s.email = outbox'[i].json.To
       /\ \A r \in Requests :
             StepOf(r, "subscribe") /\ req'[r].sent # req[r].sent => ~req[r].tx_open]_vars

\* C9: two confirmation emails have been received, of two recipients.
C9_Witness ==
    \E i, j \in 1..Len(outbox) :
        /\ outbox[i].json.Subject = "Welcome!" /\ outbox[j].json.Subject = "Welcome!"
        /\ outbox[i].json.To # outbox[j].json.To

\* C10: a confirm whose token is in no row of subscription_tokens returns 401, unless
\* the lookup itself fails, and changes nothing.
C10_UnknownTokenIs401 ==
    [][\A r \in Requests :
          /\ Free(r) /\ StepOf(r, "confirm")
          /\ Query_extract(req'[r].url).ok
          /\ \A x \in subscription_tokens :
                x.subscription_token # Query_extract(req'[r].url).val.subscription_token
          => /\ req'[r].pc = "done"
             /\ req'[r].err # "sqlx::Error" => req'[r].resp.status = 401
             /\ UNCHANGED <<subscriptions, subscription_tokens, outbox>>]_vars

\* C10: a confirm has returned 401 while the token table holds a row.
C10_Witness ==
    \E r \in Requests :
        /\ Done(r, "confirm") /\ req[r].resp.status = 401
        /\ subscription_tokens # {}

\* The URL names a subscription_token parameter.
HasTokenParameter(url) == \E i \in 1..Len(url) : url[i] = "subscription_token"

\* C11: a confirm whose URL has no subscription_token parameter returns 400 in its
\* first step, whether or not the store would answer: no lookup and no update
\* happens, and the store is unchanged.
C11_MissingTokenIs400 ==
    [][\A r \in Requests :
          /\ Free(r) /\ StepOf(r, "confirm")
          /\ ~HasTokenParameter(req'[r].url)
          => /\ req'[r].pc = "done"
             /\ req'[r].resp.status = 400
             /\ req'[r].err = "extractor"
             /\ req'[r].subscriber_id = 0
             /\ UNCHANGED <<subscriptions, subscription_tokens, outbox>>]_vars

\* C11: a confirm without the parameter has returned 400 while a pending subscriber
\* is stored.
C11_Witness ==
    /\ \E r \in Requests :
          /\ Done(r, "confirm") /\ ~HasTokenParameter(req[r].url)
          /\ req[r].resp.status = 400
    /\ \E s \in subscriptions : s.status = "pending_confirmation"

\* C12: a confirm whose lookup or whose update fails with a storage error returns 500
\* and leaves the store as it was; a confirm whose lookup fails ends there, and never
\* reaches the update.
C12_ConfirmStorageErrorIs500 ==
    [][\A r \in Requests :
          StepOf(r, "confirm") /\ req'[r].err = "sqlx::Error" =>
              /\ req'[r].pc = "done"
              /\ req'[r].resp.status = 500
              /\ UNCHANGED <<subscriptions, subscription_tokens, outbox>>
              /\ Free(r) => req'[r].subscriber_id = 0]_vars

\* C12: the lookup of a confirm of a stored token has failed, and the confirm has
\* returned 500 for a subscriber that is still pending.
C12_Witness ==
    \E r \in Requests :
        /\ Done(r, "confirm") /\ req[r].err = "sqlx::Error"
        /\ req[r].resp.status = 500
        /\ req[r].subscriber_id = 0
        /\ \E x \in subscription_tokens :
              /\ Query_extract(req[r].url) = Ok([subscription_token |-> x.subscription_token])
              /\ \E s \in subscriptions :
                    s.id = x.subscriber_id /\ s.status = "pending_confirmation"

\* The Authorization header of the stored publisher with its password; every other
\* header of Publishes is missing, malformed, of an unknown username, or of a wrong
\* password.
StoredCredentials == Basic(<<"admin", ":", "secret">>)

\* The challenge of an authentication failure.
Challenge == <<"WWW-Authenticate", "Basic realm=\"publish\"">>

\* The first step of a publish in slot r answers 401 with the challenge.
Answers401(r) ==
    /\ req'[r].pc = "done"
    /\ req'[r].resp.status = 401
    /\ Challenge \in req'[r].resp.headers

\* The first step of a publish in slot r ends it, and no email is sent.
EndsUnsent(r) ==
    /\ req'[r].pc = "done"
    /\ req'[r].sent = <<>>
    /\ req'[r].subscribers = <<>>
    /\ UNCHANGED <<subscriptions, subscription_tokens, outbox>>

\* C13 as stated: every publish without the stored credentials is answered 401 with
\* the challenge (unless the query of the credentials fails), and sends no email.
C13_AsStated ==
    [][\A r \in Requests :
          /\ Free(r) /\ StepOf(r, "publish_newsletter")
          /\ req'[r].authorization # StoredCredentials
          => /\ EndsUnsent(r)
             /\ req'[r].err # "UnexpectedError" => Answers401(r)]_vars

\* C13: a publish without the stored credentials sends no email and ends in its first
\* step, before the subscribers are queried; when its body deserializes (and the query
\* of the credentials does not fail), it is answered 401 with the challenge
\* WWW-Authenticate: Basic realm="publish". A body that does not deserialize is
\* answered 400 by the Json extractor before authentication.
C13_BadCredentialsIs401 ==
    [][\A r \in Requests :
          /\ Free(r) /\ StepOf(r, "publish_newsletter")
          /\ req'[r].authorization # StoredCredentials
          => /\ EndsUnsent(r)
             /\ req'[r].body # None /\ req'[r].err # "UnexpectedError" => Answers401(r)
             /\ req'[r].body = None => req'[r].resp.status = 400]_vars

\* C13: a publish with a wrong password has been answered 401 while a confirmed
\* subscriber is stored.
C13_Witness ==
    /\ \E r \in Requests :
          /\ Done(r, "publish_newsletter")
          /\ req[r].authorization = Basic(<<"admin", ":", "wrong">>)
          /\ req[r].resp.status = 401
    /\ \E s \in subscriptions : s.status = "confirmed"

\* Two Authorization headers that differ only in whether the username is stored.
WrongPassword == Basic(<<"admin", ":", "wrong">>)
UnknownUsername == Basic(<<"nobody", ":", "wrong">>)

\* C14: of two publishes, one after the other on the same store, that differ only in
\* whether the username exists (a stored username with a wrong password, an unknown
\* username with the same password), the second ends in its first step like the
\* first, and with the same response: status, headers and body (unless the query of
\* the credentials fails in one of them).
C14_UnknownUserLikeWrongPassword ==
    [][\A r \in Requests :
          /\ Done(r, "publish_newsletter") /\ StepOf(r, "publish_newsletter")
          /\ {req[r].authorization, req'[r].authorization} = {WrongPassword, UnknownUsername}
          /\ req'[r].body = req[r].body
          => /\ req'[r].pc = "done"
             /\ req[r].err # "UnexpectedError" /\ req'[r].err # "UnexpectedError"
                => req'[r].resp = req[r].resp]_vars

\* C14: a publish of an unknown username has been answered 401 with the challenge.
C14_Witness ==
    \E r \in Requests :
        /\ Done(r, "publish_newsletter")
        /\ req[r].authorization = UnknownUsername /\ req[r].body # None
        /\ req[r].resp = Response(401, {Challenge}, <<>>)

\* The number of email requests the handler in slot r sent to an address.
SentTo(r, email) == Cardinality({i \in 1..Len(req[r].sent) : req[r].sent[i].json.To = email})

\* The confirmed rows of an address.
ConfirmedOf(email) == {s \in subscriptions : s.status = "confirmed" /\ s.email = email}

\* The addresses of the stored rows and of the requests the handler in slot r sent.
Addresses(r) == {s.email : s \in subscriptions} \cup {req[r].sent[i].json.To : i \in 1..Len(req[r].sent)}

\* C15: a publish with the stored credentials that meets no error returns 200, and has
\* sent one email request for each confirmed row (to its address, with the title of
\* the issue as subject) and none for a pending row.
C15_OneEmailPerConfirmed ==
    \A r \in Requests :
        Done(r, "publish_newsletter") /\ req[r].err = "none" =>
            /\ req[r].authorization = StoredCredentials
            /\ req[r].resp.status = 200
            /\ \A i \in 1..Len(req[r].sent) : req[r].sent[i].json.Subject = req[r].body[1].title
            /\ \A email \in Addresses(r) : SentTo(r, email) = Cardinality(ConfirmedOf(email))

\* C15: a publish has returned 200 after one send, while one subscriber is confirmed
\* and another is pending.
C15_Witness ==
    /\ \E r \in Requests :
          /\ Done(r, "publish_newsletter") /\ req[r].resp.status = 200
          /\ Len(req[r].sent) = 1
    /\ \E s \in subscriptions : s.status = "pending_confirmation"

\* C16: a publish that meets no error on a store with a confirmed row whose email does
\* not parse returns 200; it has sent no request for that row, and one request for
\* each confirmed row whose email parses, wherever the query returned the row.
C16_UnparsableRowSkipped ==
    \A r \in Requests :
        Done(r, "publish_newsletter") /\ req[r].err = "none" =>
            /\ req[r].resp.status = 200
            /\ SentTo(r, LegacyRow.email) = 0
            /\ \A email \in Addresses(r) \ {LegacyRow.email} :
                  SentTo(r, email) = Cardinality(ConfirmedOf(email))

\* C16: a publish has returned 200 after two sends, while the legacy row is stored,
\* confirmed.
C16_Witness ==
    /\ LegacyRow \in subscriptions
    /\ ~SubscriberEmail_parse(LegacyRow.email).ok
    /\ \E r \in Requests :
          /\ Done(r, "publish_newsletter") /\ req[r].resp.status = 200
          /\ Len(req[r].sent) = 2

\* C17: the first failing send of a publish ends it: the handler returns 500 with the
\* failed request as its last, whatever subscribers are left in its list. No step of a
\* publish writes to the store, and the list a publish works through is every
\* confirmed row, whatever was sent before: a retry sends to all of them again.
C17_FailedSendAborts ==
    [][\A r \in Requests :
          StepOf(r, "publish_newsletter") =>
              /\ UNCHANGED <<subscriptions, subscription_tokens>>
              /\ req[r].pc = "send_email" /\ req'[r].send_result = "Err" =>
                    /\ req'[r].pc = "done"
                    /\ req'[r].resp.status = 500
                    /\ Len(req'[r].sent) = Len(req[r].sent) + 1
                    /\ Len(outbox') = Len(outbox) + 1
              /\ req[r].pc = "get_confirmed_subscribers" /\ req'[r].err = "none" =>
                    Len(req'[r].subscribers) =
                        Cardinality({s \in subscriptions : s.status = "confirmed"})]_vars

\* C17: the first send of a publish to two confirmed subscribers has failed: the
\* publish has returned 500 with a subscriber left in its list, after an earlier
\* publish had sent to a subscriber.
C17_Witness ==
    \E r \in Requests :
        /\ Done(r, "publish_newsletter") /\ req[r].send_result = "Err"
        /\ req[r].resp.status = 500
        /\ Len(req[r].sent) = 1 /\ req[r].subscribers # <<>>
        /\ Len(outbox) > Len(req[r].sent) + Cardinality(subscriptions)

\* C18: duplicate submissions are not deduplicated. With subscribes of one valid form
\* interleaved, every commit adds exactly one new subscriber row, with the email of
\* the form and an id no stored row has, and exactly one new token row, of that id and
\* with a token no stored row has; and a subscribe whose send succeeds (it has
\* committed before) returns 200.
C18_DuplicatesEachAddARow ==
    /\ [][\A r \in Requests :
             req[r].pc = "commit" /\ req'[r].pc = "send_confirmation_email" =>
                 \E row \in subscriptions', x \in subscription_tokens' :
                     /\ subscriptions' = subscriptions \cup {row}
                     /\ row.id \notin SubscriberIds
                     /\ row.email = req[r].form_email[1]
                     /\ subscription_tokens' = subscription_tokens \cup {x}
                     /\ x.subscriber_id = row.id
                     /\ \A y \in subscription_tokens :
                           y.subscription_token # x.subscription_token]_vars
    /\ [](\A r \in Requests :
             Done(r, "subscribe") /\ req[r].send_result = "Ok" =>
                 /\ req[r].resp.status = 200
                 /\ req[r].subscriber_id \in SubscriberIds)

\* C18: two subscribes of the same email have returned 200, and two rows hold it.
C18_Witness ==
    /\ \E r1, r2 \in Requests :
          /\ r1 # r2
          /\ Done(r1, "subscribe") /\ Done(r2, "subscribe")
          /\ req[r1].resp.status = 200 /\ req[r2].resp.status = 200
          /\ req[r1].form_email = req[r2].form_email
    /\ \E s1, s2 \in subscriptions : s1.id # s2.id /\ s1.email = s2.email

\* C19: send_email returns Ok if and only if the email server answers with a 2xx
\* status within the timeout: whenever a handler has called send_email, the call
\* returned Ok exactly when the answer was a status from 200 to 299.
C19_OkIffSuccessStatus ==
    \A r \in Requests :
        req[r].answer # NoAnswer =>
            (req[r].send_result = "Ok" <=> req[r].answer \in 200..299)

\* C19: the email server has answered 304 to a confirmation email, send_email has
\* returned Ok, and subscribe has returned 200.
C19_Witness ==
    \E r \in Requests :
        /\ Done(r, "subscribe") /\ req[r].answer = 304
        /\ req[r].send_result = "Ok" /\ req[r].resp.status = 200

\* The step is a call of send_email by the handler in slot r.
CallsSendEmail(r) ==
    /\ req'[r] # req[r]
    /\ \/ req[r].pc = "send_confirmation_email"
       \/ req[r].pc = "send_email" /\ Head(req[r].subscribers).ok

\* The address the handler in slot r sends to in its next call of send_email.
Recipient(r) ==
    IF req[r].pc = "send_confirmation_email"
    THEN req[r].new_subscriber.email
    ELSE Head(req[r].subscribers).val

\* C20: each call of send_email makes exactly one request, whatever the server
\* answers: a POST to {base_url}/email with the X-Postmark-Server-Token header and a
\* JSON body of From (the sender), To (the recipient), Subject, TextBody and HtmlBody;
\* and a step that is no call of send_email makes none.
C20_OnePostPerCall ==
    [][\A r \in Requests :
          IF CallsSendEmail(r)
          THEN /\ Len(outbox') = Len(outbox) + 1
               /\ SubSeq(outbox', 1, Len(outbox)) = outbox
               /\ LET request == outbox'[Len(outbox')]
                  IN /\ request.method = "POST"
                     /\ request.url = email_base_url \o <<"/email">>
                     /\ <<"X-Postmark-Server-Token", authorization_token>> \in request.headers
                     /\ DOMAIN request.json = {"From", "To", "Subject", "TextBody", "HtmlBody"}
                     /\ request.json.From = sender
                     /\ request.json.To = Recipient(r)
                     /\ request.json.Subject \in {"Welcome!", Issue.title}
          ELSE req'[r] # req[r] => outbox' = outbox]_vars

\* C20: a handler has called send_email once, the server has answered 500, and the
\* server has received one request.
C20_Witness ==
    /\ Len(outbox) = 1
    /\ \E r \in Requests :
          /\ Len(req[r].sent) = 1
          /\ req[r].answer = 500 /\ req[r].send_result = "Err"

\* C21: SubscriberName::parse always returns a Result, Ok or Err, and it returns Ok
\* exactly for the names that are not empty after trimming, have at most 256
\* graphemes, and contain no forbidden character (/ ( ) " < > \ { }); the Ok value
\* is the name as given, the Err value a message.
C21_NameParsesIffValid ==
    \A r \in Requests :
        Done(r, "SubscriberName::parse") =>
            /\ Len(req[r].result) = 1
            /\ req[r].result[1].ok \in BOOLEAN
            /\ req[r].result[1].ok <=>
                   /\ Trim(req[r].s) # <<>>
                   /\ GraphemeCount(req[r].s) <= 256
                   /\ \A i \in 1..Len(req[r].s) :
                         req[r].s[i] \notin {"/", "(", ")", "\"", "<", ">", "\\", "{", "}"}
            /\ req[r].result[1].ok => req[r].result[1].val = req[r].s

\* C21: a name of 257 characters in 256 graphemes has been parsed.
C21_Witness ==
    \E r \in Requests :
        /\ Done(r, "SubscriberName::parse")
        /\ Len(req[r].s) = 257 /\ GraphemeCount(req[r].s) = 256
        /\ req[r].result[1].ok

\* The characters of the Alphanumeric distribution: a-z, A-Z and 0-9.
AlphanumericCharacters ==
    {"a", "b", "c", "d", "e", "f", "g", "h", "i", "j", "k", "l", "m",
     "n", "o", "p", "q", "r", "s", "t", "u", "v", "w", "x", "y", "z",
     "A", "B", "C", "D", "E", "F", "G", "H", "I", "J", "K", "L", "M",
     "N", "O", "P", "Q", "R", "S", "T", "U", "V", "W", "X", "Y", "Z",
     "0", "1", "2", "3", "4", "5", "6", "7", "8", "9"}

\* {base_url}/subscriptions/confirm?subscription_token={token}
LinkOf(token) == base_url \o <<"/subscriptions/confirm", "?", "subscription_token", "=">> \o token

\* The mail carries the link of the token in its HTML body and in its plain-text body.
CarriesLink(mail, token) ==
    /\ find_url(mail.json.HtmlBody) = Some(LinkOf(token))
    /\ find_url(mail.json.TextBody) = Some(LinkOf(token))

\* C22: the confirmation email of a subscribe carries, in its HTML body and in its
\* plain-text body, the same link {base_url}/subscriptions/confirm?subscription_token=
\* {token}, and the token is the one of 25 alphanumeric characters that the same
\* subscribe stored, in a committed row, for the subscriber it created.
C22_EmailCarriesStoredToken ==
    [][\A r \in Requests :
          StepOf(r, "subscribe") /\ req[r].pc = "send_confirmation_email" =>
              /\ Len(outbox') = Len(outbox) + 1
              /\ \E x \in subscription_tokens :
                    /\ x.subscriber_id = req[r].subscriber_id
                    /\ Len(x.subscription_token) = 25
                    /\ \A i \in 1..25 : x.subscription_token[i] \in AlphanumericCharacters
                    /\ CarriesLink(outbox'[Len(outbox')], x.subscription_token)
                    /\ \E s \in subscriptions :
                          s.id = x.subscriber_id /\ s.email = outbox'[Len(outbox')].json.To]_vars

\* C22: a second subscribe has sent its email, with the link of its own token.
C22_Witness ==
    \E r \in Requests :
        /\ Done(r, "subscribe") /\ Len(req[r].sent) = 1
        /\ Len(outbox) = 2 /\ Cardinality(subscription_tokens) = 2
        /\ req[r].sent[1] = outbox[2]
        /\ CarriesLink(outbox[2], req[r].subscription_token)
        /\ ~CarriesLink(outbox[1], req[r].subscription_token)

\* C23: the response of a failed request shows the client a status code and nothing
\* else: whenever a handler has answered with an error status, the body is empty and the
\* only header, if any, is the challenge of an authentication failure.
C23_ErrorBodyIsEmpty ==
    \A r \in Requests :
        req[r].pc = "done" /\ req[r].resp.status >= 400 =>
            /\ req[r].resp.body = <<>>
            /\ req[r].resp.headers \subseteq {Challenge}
            /\ Challenge \in req[r].resp.headers => req[r].resp.status = 401

\* C23: the insert of a subscribe has failed, and the body of its 500 response is the
\* message of the error.
C23_Witness ==
    \E r \in Requests :
        /\ Done(r, "subscribe") /\ req[r].err = "InsertSubscriberError"
        /\ req[r].resp.status = 500
        /\ req[r].resp.body = <<"Failed to insert a new subscriber in the database.">>

\* The confirm in slot r named a token that a committed row of subscription_tokens holds.
NamesStoredToken(r) ==
    /\ HasTokenParameter(req[r].url)
    /\ \E x \in subscription_tokens :
          req[r].url = LinkOf(x.subscription_token)

\* C24: tokens never expire and are never deleted. No step of any handler removes or
\* alters a row of subscription_tokens; and a confirm of a committed token, whatever
\* subscribes, confirms and publishes came before it, returns 200 (unless a storage
\* call of the confirm itself fails).
C24_TokensStayValid ==
    /\ [][\A x \in subscription_tokens : x \in subscription_tokens']_vars
    /\ [](\A r \in Requests :
             Done(r, "confirm") /\ NamesStoredToken(r) /\ req[r].err # "sqlx::Error" =>
                 req[r].resp.status = 200)

\* C24: a token has been confirmed with again, with 200, after a publish had already
\* sent an issue to its subscriber, and after a later subscribe.
C24_Witness ==
    \E r \in Requests :
        /\ Done(r, "confirm") /\ NamesStoredToken(r) /\ req[r].resp.status = 200
        /\ \E i, j \in 1..Len(outbox), s \in subscriptions :
              /\ s.id = req[r].subscriber_id
              /\ outbox[i].json.Subject = Issue.title /\ outbox[i].json.To = s.email
              /\ i < j /\ outbox[j].json.Subject = "Welcome!"

\* C25: GET /health_check returns a success status with an empty body whatever the
\* store and the email server hold: it is served whenever a request can be, it ends in
\* one step with a 2xx status and an empty body, and it changes no table and sends no
\* email.
C25_HealthCheckIsInert ==
    /\ [](\A r \in Requests : Free(r) => ENABLED health_check(r))
    /\ [][\A r \in Requests :
             StepOf(r, "health_check") =>
                 /\ req'[r].pc = "done"
                 /\ req'[r].resp.status \in 200..299
                 /\ req'[r].resp.body = <<>>
                 /\ req'[r].sent = <<>>
                 /\ UNCHANGED <<subscriptions, subscription_tokens, outbox>>]_vars

\* C25: a health check has been answered 200 with an empty body while a subscribe
\* holds an open transaction with a row written, the store holds a confirmed
\* subscriber, and the email server has received an issue.
C25_Witness ==
    /\ \E r, r2 \in Requests :
          /\ Done(r, "health_check")
          /\ req[r].resp = Response(200, {}, <<>>)
          /\ req[r2].tx_open /\ req[r2].tx_subscriptions # {}
    /\ \E s \in subscriptions : s.status = "confirmed"
    /\ \E i \in 1..Len(outbox) : outbox[i].json.Subject = Issue.title

\* C26: a successful confirm changes only the status of the one subscriber row its
\* token maps to. The step that ends a confirm with 200 replaces that row by the same
\* row with the status confirmed (id, email, name and subscribed_at as before), leaves
\* every other subscriber row and every token row as they were, and sends no email;
\* the lookup step before it changes nothing.
C26_ConfirmChangesOnlyStatus ==
    [][\A r \in Requests :
          StepOf(r, "confirm") =>
              /\ UNCHANGED <<subscription_tokens, outbox>>
              /\ req'[r].sent = <<>>
              /\ req'[r].resp.status # 200 => UNCHANGED subscriptions
              /\ req'[r].resp.status = 200 =>
                    \E x \in subscription_tokens, s \in subscriptions :
                        /\ req[r].url = LinkOf(x.subscription_token)
                        /\ s.id = x.subscriber_id
                        /\ subscriptions' =
                              (subscriptions \ {s})
                              \cup {[id |-> s.id, email |-> s.email, name |-> s.name,
                                      subscribed_at |-> s.subscribed_at,
                                      status |-> "confirmed"]}]_vars

\* C26: a confirm has returned 200 and its subscriber is confirmed, while another
\* subscriber, of the same email, is still pending.
C26_Witness ==
    \E r \in Requests, s, t \in subscriptions :
        /\ Done(r, "confirm") /\ req[r].resp.status = 200
        /\ s.id = req[r].subscriber_id /\ s.status = "confirmed"
        /\ t.id # s.id /\ t.email = s.email /\ t.status = "pending_confirmation"

\* The subscribes whose transaction is open, or ended without a commit.
Uncommitted ==
    {r \in Requests :
        /\ req[r].kind = "subscribe"
        /\ req[r].subscription_token # <<>>
        /\ req[r].tx_open \/ req[r].err \in StorageErrors}

\* C27: rows a subscribe has written in a transaction that is not committed yet, or
\* was rolled back, are never observed, however the requests interleave. A confirm of
\* the token of such a subscribe returns 401 in its first step (500 if its lookup
\* fails) and changes no status; and a publish takes its list from the committed
\* confirmed rows alone, and every email it sends goes to the address of one.
C27_UncommittedRowsUnseen ==
    [][\A r \in Requests :
          /\ (/\ Free(r) /\ StepOf(r, "confirm")
              /\ (\E u \in Uncommitted : req'[r].url = LinkOf(req[u].subscription_token)))
             => /\ req'[r].pc = "done"
                /\ req'[r].err # "sqlx::Error" => req'[r].resp.status = 401
                /\ UNCHANGED <<subscriptions, subscription_tokens, outbox>>
          /\ (/\ StepOf(r, "publish_newsletter")
              /\ req[r].pc = "get_confirmed_subscribers" /\ req'[r].err = "none")
             => Len(req'[r].subscribers) =
                    Cardinality({s \in subscriptions : s.status = "confirmed"})
          /\ StepOf(r, "publish_newsletter") =>
                 \A i \in (Len(outbox) + 1)..Len(outbox') :
                     \E s \in subscriptions :
                         s.status = "confirmed" /\ s.email = outbox'[i].json.To]_vars

\* C27: a confirm of the token of a subscribe whose transaction is open, with both
\* rows written, has returned 401, while a publish is sending to a confirmed
\* subscriber.
C27_Witness ==
    \E c, u \in Requests :
        /\ Done(c, "confirm") /\ req[c].resp.status = 401
        /\ u \in Uncommitted /\ req[u].tx_open
        /\ req[u].tx_subscriptions # {} /\ req[u].tx_tokens # {}
        /\ req[c].url = LinkOf(req[u].subscription_token)
        /\ \E i \in 1..Len(outbox) : outbox[i].json.Subject = Issue.title

\* C28: every email a publish sends carries the issue in its place: the Subject is the
\* title of the request, the HtmlBody its content.html, the TextBody its content.text.
C28_IssueFieldsInPlace ==
    \A r \in Requests :
        req[r].kind = "publish_newsletter" =>
            \A i \in 1..Len(req[r].sent) :
                /\ req[r].sent[i].json.Subject = req[r].body[1].title
                /\ req[r].sent[i].json.HtmlBody = req[r].body[1].content.html
                /\ req[r].sent[i].json.TextBody = req[r].body[1].content.text

\* C28: a publish of an issue whose HTML and text differ has sent an email whose
\* HtmlBody is the text of the issue and whose TextBody is its HTML.
C28_Witness ==
    \E r \in Requests :
        /\ req[r].kind = "publish_newsletter" /\ Len(req[r].sent) >= 1
        /\ req[r].body[1].content.html # req[r].body[1].content.text
        /\ req[r].sent[1] = outbox[Len(outbox)]
        /\ req[r].sent[1].json.Subject = req[r].body[1].title
        /\ req[r].sent[1].json.HtmlBody = req[r].body[1].content.text
        /\ req[r].sent[1].json.TextBody = req[r].body[1].content.html

====
